---- MODULE Spec2Model ----
(***************************************************************************)
(* A model of scripts/pinecone_utils.py: create_embeddings, load_pinecone, *)
(* store_in_pinecone and clear_library_vectors, together with the parts of *)
(* the embeddings API and of the vector-index service they talk to.        *)
(*                                                                         *)
(* Python values are modelled as follows.  None is the empty tuple and any *)
(* other optional value x is the one-element tuple <<x>>.  Strings that    *)
(* the code only concatenates are TLA+ strings; strings the code searches  *)
(* (the text of an upsert error) are tuples of one-character strings.  The *)
(* log variable holds the info, warning and error records of the call in   *)
(* progress; the per-chunk debug records are not kept.                     *)
(***************************************************************************)
EXTENDS Integers, Sequences, FiniteSets, TLC

\* Longest chunk list of an ingestion in a multi-call session (Spec).
MaxChunks == 3
\* Number of store_in_pinecone calls in a multi-call session (Spec).
MaxStores == 2
\* Longest chunk list of the single ingestion of SpecBatch.
MaxN == 250
\* Number of load_pinecone calls of the callers of SpecLoad together.
MaxLoads == 3

\* range(0, len(vectors), 100) and vectors[i:i+100].
BatchSize == 100
\* pc.create_index(index_name, dimension=1536, ...).
EmbeddingDimension == 1536

None == <<>>
Some(x) == <<x>>

Min(a, b) == IF a < b THEN a ELSE b

(***************************************************************************)
(* Strings as tuples of characters, and Python's `needle in haystack`.     *)
(***************************************************************************)
Str429 == <<"4", "2", "9">>
StrTooManyRequests ==
  <<"T", "o", "o", " ", "M", "a", "n", "y", " ", "R", "e", "q", "u", "e", "s", "t", "s">>
StrFailedToUpsert ==
  <<"F", "a", "i", "l", "e", "d", " ", "t", "o", " ", "u", "p", "s", "e", "r", "t", " ",
    "v", "e", "c", "t", "o", "r", "s", ":", " ">>

Contains(hay, needle) ==
  \E s \in 0..(Len(hay) - Len(needle)) :
     \A j \in 1..Len(needle) : hay[s + j] = needle[j]

\* The texts of the errors index.upsert raises in the model.
ErrorMessages ==
  { <<"(">> \o Str429 \o <<")", " ">> \o StrTooManyRequests,
    StrTooManyRequests \o <<" ">> \o Str429,
    <<"(">> \o Str429 \o <<")", " ", "Q", "u", "o", "t", "a">>,
    <<"(", "5", "0", "3", ")", " ">> \o StrTooManyRequests,
    <<"(", "4", "2", " ", "9", ")", " ">> \o StrTooManyRequests,
    <<"(", "5", "0", "0", ")">> }

UpsertErrors == {[type |-> "PineconeApiException", msg |-> m] : m \in ErrorMessages}

\* The errors index.delete raises in the model.
DeleteErrors ==
  { [type |-> "NotFoundException", msg |-> <<"(", "4", "0", "4", ")">>],
    [type |-> "PineconeApiException", msg |-> <<"(", "5", "0", "0", ")">>],
    [type |-> "ConnectionError", msg |-> <<"r", "e", "s", "e", "t">>] }

\* isinstance(e, NotFoundException), the first except clause of
\* clear_library_vectors.
IsNotFound(e) == e.type = "NotFoundException"

(***************************************************************************)
(* Inputs: chunk lists, media files, ingestion jobs, index names.          *)
(***************************************************************************)
\* The text of the chunk at 1-based position i.  Positions 1 and 2 hold two
\* different texts whose md5 digests share their first 8 hex characters,
\* position 3 repeats the text of position 1.
TextAt(i) ==
  CASE i % 4 = 1 -> "segment 55289"
    [] i % 4 = 2 -> "segment 121308"
    [] i % 4 = 3 -> "segment 55289"
    [] OTHER     -> "intro"

ChunkAt(i) == [text |-> TextAt(i), start |-> 30 * (i - 1), end |-> 30 * i]

ChunkList(n) == [i \in 1..n |-> ChunkAt(i)]

\* hashlib.md5(text.encode()).hexdigest()[:8] of the texts above.
Md5Hex8(text) ==
  CASE text = "segment 55289"  -> "08b35d72"
    [] text = "segment 121308" -> "08b35d72"
    [] text = "intro"          -> "0b4b633f"

\* json.dumps(chunk) of a chunk with the keys text, start and end.
JsonDumps(chunk) ==
  "{\"text\": \"" \o chunk.text \o "\", \"start\": " \o ToString(chunk.start)
    \o ", \"end\": " \o ToString(chunk.end) \o "}"

\* File paths are tuples of path components.
FileTalk == <<"media", "lib", "talk.mp3">>
FileSong == <<"media", "song.mp3">>
FileVideo == <<"media", "video.mp4">>

\* media_utils.get_media_metadata(file_path): (title, author, duration, url).
get_media_metadata(file_path) ==
  CASE file_path = FileTalk ->
         [title |-> "a||b", author |-> "A", duration |-> 90, url |-> None]
    [] file_path = FileSong ->
         [title |-> "b", author |-> "B", duration |-> 60, url |-> Some("")]
    [] file_path = FileVideo ->
         [title |-> "c", author |-> "C", duration |-> 120,
          url |-> Some("https://youtu.be/x")]

\* media_utils.get_file_hash(file_path).
get_file_hash(file_path) ==
  CASE file_path = FileTalk  -> "hash-talk"
    [] file_path = FileSong  -> "hash-song"
    [] file_path = FileVideo -> "hash-video"

\* os.path.basename(file_path).
Basename(file_path) ==
  IF Len(file_path) = 0 THEN "" ELSE file_path[Len(file_path)]

\* The ingestions of the model: the arguments file_path, author,
\* library_name and is_youtube_video of store_in_pinecone.
Jobs ==
  { [file_path |-> FileTalk, author |-> "A", library_name |-> "lib",
     is_youtube_video |-> FALSE],
    [file_path |-> FileSong, author |-> "B", library_name |-> "lib||a",
     is_youtube_video |-> FALSE],
    [file_path |-> FileVideo, author |-> "C", library_name |-> "tube",
     is_youtube_video |-> TRUE] }

Libraries == {j.library_name : j \in Jobs}
Titles == {get_media_metadata(j.file_path).title : j \in Jobs}

\* os.getenv('PINECONE_INGEST_INDEX_NAME').
EnvIndexName == "idx-env"
\* The index_name arguments of load_pinecone.
IndexNameArgs == {None, Some(""), Some("idx-env"), Some("idx-b")}
\* The threads or processes that call load_pinecone.
Callers == {"main", "peer"}

\* The errors pc.list_indexes and pc.create_index raise in the model.
ListError == [type |-> "PineconeApiException", msg |-> <<"(", "5", "0", "3", ")">>]
CreateError == [type |-> "PineconeApiException", msg |-> <<"(", "4", "0", "3", ")">>]
ConflictError == [type |-> "PineconeApiException", msg |-> <<"(", "4", "0", "9", ")">>]

VARIABLES
  indexes,     \* the service: names of the existing indexes
  createReqs,  \* the service: create-index requests received, in order,
               \* each with whether the service accepted it
  lp,          \* load_pinecone: per caller, where its call is ("idle",
               \* "create" before line 24, "index" before line 26), its
               \* argument, the name it resolved, its log and its outcome
  loads,       \* number of load_pinecone calls begun
  overlap,     \* whether a load_pinecone call began during another one
  db,          \* the service: the vector records of the index
  chunks,      \* the caller: the chunk list of the ingestion
  embReqs,     \* the embeddings API: requests received by the last call
  embResp,     \* the embeddings API: its last response
  embeddings,  \* the caller: the list create_embeddings returned
  stores,      \* number of store_in_pinecone calls begun
  pc,          \* "idle", "loop" (line 68), "upsert" (inside line 74),
               \* "delete" (inside line 90), "exited"
  args,        \* the arguments of the call in progress
  vectors,     \* store_in_pinecone: vectors
  off,         \* store_in_pinecone: the loop variable i of line 68
  flag,        \* the state of interrupt_event
  polls,       \* number of interrupt_event.is_set() calls of this call
  setAt,       \* where the call was when interrupt_event was set
  upserts,     \* the service: batches received by this call, in order
  deletes,     \* the service: delete requests received by this call
  dbBefore,    \* db when this call began
  svcError,    \* the exception the service raised in this call, or None
  outcome,     \* how the last call ended
  log          \* the log records of this call

vars == <<indexes, createReqs, lp, loads, overlap, db, chunks, embReqs, embResp, embeddings, stores,
          pc, args, vectors, off, flag, polls, setAt, upserts, deletes,
          dbBefore, svcError, outcome, log>>

loadVars == <<indexes, createReqs, lp, loads, overlap>>
serviceVars == <<loadVars, db>>
embedVars == <<chunks, embReqs, embResp, embeddings>>
storeVars == <<vectors, off, flag, polls, setAt, upserts>>

NoOutcome == [op |-> "none", kind |-> "none", value |-> None]
NoArgs == [op |-> "none"]

LogRecord(level, msg, arg) == [level |-> level, msg |-> msg, arg |-> arg]

Init ==
  /\ indexes = {}
  /\ createReqs = <<>>
  /\ lp = [t \in Callers |->
            [pc |-> "idle", index_name |-> None, name |-> "", log |-> <<>>,
             outcome |-> NoOutcome]]
  /\ loads = 0
  /\ overlap = FALSE
  /\ db = {}
  /\ chunks = <<>>
  /\ embReqs = <<>>
  /\ embResp = [data |-> <<>>]
  /\ embeddings = <<>>
  /\ stores = 0
  /\ pc = "idle"
  /\ args = NoArgs
  /\ vectors = <<>>
  /\ off = 0
  /\ flag = FALSE
  /\ polls = 0
  /\ setAt = None
  /\ upserts = <<>>
  /\ deletes = <<>>
  /\ dbBefore = {}
  /\ svcError = None
  /\ outcome = NoOutcome
  /\ log = <<>>

\* What every call starts from.
BeginCall(a) ==
  /\ pc = "idle"
  /\ args' = a
  /\ dbBefore' = db
  /\ svcError' = None

\* The locals of store_in_pinecone outside a call of it.
NoStoreLocals ==
  /\ vectors' = <<>>
  /\ off' = 0
  /\ flag' = FALSE
  /\ polls' = 0
  /\ setAt' = None
  /\ upserts' = <<>>

(***************************************************************************)
(* create_embeddings                                                       *)
(***************************************************************************)
\* The embedding the API computes for a text.
EmbeddingOf(text) ==
  CASE text = "segment 55289"  -> <<1, 0>>
    [] text = "segment 121308" -> <<0, 1>>
    [] text = "intro"          -> <<1, 1>>

\* client.embeddings.create(input, model): one item per input, in order.
EmbeddingsAPI(request) ==
  [data |-> [i \in 1..Len(request.input) |->
               [index |-> i - 1, embedding |-> EmbeddingOf(request.input[i])]]]

\* Line 14: texts = [chunk['text'] for chunk in chunks].
EmbeddingRequest(cs) ==
  [input |-> [i \in 1..Len(cs) |-> cs[i].text], model |-> "text-embedding-ada-002"]

\* A create_embeddings that loses the last item of the response.
EmbeddingListTruncated(response) ==
  [i \in 1..(Len(response.data) - 1) |-> response.data[i].embedding]

\* Line 16: [embedding.embedding for embedding in response.data].
EmbeddingList(response) ==
  [i \in 1..Len(response.data) |-> response.data[i].embedding]

create_embeddings(maxLen, maxStores) ==
  \E n \in 0..maxLen :
    LET cs == ChunkList(n)
        request == EmbeddingRequest(cs)
        response == EmbeddingsAPI(request)
    IN /\ stores < maxStores
       /\ BeginCall([op |-> "create_embeddings"])
       /\ chunks' = cs
       /\ embReqs' = <<request>>
       /\ embResp' = response
       /\ embeddings' = EmbeddingList(response)
       /\ outcome' = [op |-> "create_embeddings", kind |-> "return",
                      value |-> EmbeddingList(response)]
       /\ log' = <<>>
       /\ pc' = "idle"
       /\ NoStoreLocals
       /\ deletes' = <<>>
       /\ UNCHANGED <<serviceVars, stores>>

(***************************************************************************)
(* load_pinecone                                                           *)
(***************************************************************************)
\* Lines 19-20: `if not index_name` holds of None and of the empty string.
EffectiveIndexName(index_name) ==
  IF index_name = None \/ index_name = Some("") THEN EnvIndexName
  ELSE index_name[1]

\* A load_pinecone that creates the index without looking for it.
IndexMissingUnchecked(name, names) == TRUE

\* Line 22: index_name not in pc.list_indexes().names().
IndexMissing(name, names) == name \notin names

\* Lines 24-25.
CreateIndexRequest(name) ==
  [name |-> name, dimension |-> EmbeddingDimension, metric |-> "cosine",
   cloud |-> "aws", region |-> "us-west-2"]

\* Everything but the state load_pinecone and the index list are about.
sessionVars == <<db, chunks, embReqs, embResp, embeddings, stores, pc, args,
                 vectors, off, flag, polls, setAt, upserts, deletes, dbBefore,
                 svcError, outcome, log>>

LoadOutcome(kind, value) == [op |-> "load_pinecone", kind |-> kind, value |-> value]

\* Lines 19-23 with pc.list_indexes() answering: caller t resolves the name
\* and tests it against the names the service has at this moment.
LoadList(t) ==
  \E index_name \in IndexNameArgs :
    LET name == EffectiveIndexName(index_name)
        missing == IndexMissing(name, indexes)
    IN /\ lp[t].pc = "idle"
       /\ loads < MaxLoads
       /\ loads' = loads + 1
       /\ overlap' = (overlap \/ \E u \in Callers \ {t} : lp[u].pc # "idle")
       /\ lp' = [lp EXCEPT ![t] =
                   [pc |-> IF missing THEN "create" ELSE "index",
                    index_name |-> index_name,
                    name |-> name,
                    log |-> IF missing
                            THEN <<LogRecord("info",
                                     "Creating pinecone index " \o name, None)>>
                            ELSE <<>>,
                    outcome |-> NoOutcome]]
       /\ UNCHANGED <<indexes, createReqs, sessionVars>>

\* Lines 19-22 with pc.list_indexes() raising: nothing handles the exception.
LoadListFail(t) ==
  \E index_name \in IndexNameArgs :
    /\ lp[t].pc = "idle"
    /\ loads < MaxLoads
    /\ loads' = loads + 1
    /\ overlap' = (overlap \/ \E u \in Callers \ {t} : lp[u].pc # "idle")
    /\ lp' = [lp EXCEPT ![t] =
                [pc |-> "idle", index_name |-> index_name,
                 name |-> EffectiveIndexName(index_name), log |-> <<>>,
                 outcome |-> LoadOutcome("raise", ListError)]]
    /\ UNCHANGED <<indexes, createReqs, sessionVars>>

\* Lines 24-25 with pc.create_index answering: the service takes the request.
\* A request for a name that exists by now changes nothing at the service.
LoadCreate(t) ==
  /\ lp[t].pc = "create"
  /\ createReqs' = Append(createReqs,
                     [request |-> CreateIndexRequest(lp[t].name), accepted |-> TRUE])
  /\ indexes' = indexes \cup {lp[t].name}
  /\ lp' = [lp EXCEPT ![t].pc = "index"]
  /\ UNCHANGED <<loads, overlap, sessionVars>>

\* Lines 24-25 with pc.create_index raising (a quota, a transport error, or
\* the name existing by now): nothing handles the exception.
LoadCreateFail(t) ==
  /\ lp[t].pc = "create"
  /\ createReqs' = Append(createReqs,
                     [request |-> CreateIndexRequest(lp[t].name), accepted |-> FALSE])
  /\ lp' = [lp EXCEPT ![t].pc = "idle",
                      ![t].outcome =
                         LoadOutcome("raise",
                           IF lp[t].name \in indexes THEN ConflictError
                           ELSE CreateError)]
  /\ UNCHANGED <<indexes, loads, overlap, sessionVars>>

\* Line 26: return pc.Index(index_name).
LoadIndex(t) ==
  /\ lp[t].pc = "index"
  /\ lp' = [lp EXCEPT ![t].pc = "idle",
                      ![t].outcome = LoadOutcome("return", Some(lp[t].name))]
  /\ UNCHANGED <<indexes, createReqs, loads, overlap, sessionVars>>

load_pinecone(t) ==
  \/ LoadList(t)
  \/ LoadListFail(t)
  \/ LoadCreate(t)
  \/ LoadCreateFail(t)
  \/ LoadIndex(t)

(***************************************************************************)
(* store_in_pinecone                                                       *)
(***************************************************************************)
\* Lines 38 and 53: 'youtube' if is_youtube_video else 'audio'.
SourceType(is_youtube_video) == IF is_youtube_video THEN "youtube" ELSE "audio"

\* An id without the chunk number.
ChunkIdNoIndex(is_youtube_video, library_name, title, text, i) ==
  SourceType(is_youtube_video) \o "||" \o library_name \o "||" \o title \o "||"
    \o Md5Hex8(text)

\* Lines 37-38, for the chunk at 0-based position i.
ChunkId(is_youtube_video, library_name, title, text, i) ==
  SourceType(is_youtube_video) \o "||" \o library_name \o "||" \o title \o "||"
    \o Md5Hex8(text) \o "||chunk" \o ToString(i + 1)

\* `if url:` in place of `if url is not None:`.
HasUrlTruthy(url) == url # None /\ url # Some("")

\* Line 59: url is not None.
HasUrl(url) == url # None

\* Lines 44-60.
Metadata(chunk, job, media) ==
  LET keys == {"text", "start_time", "end_time", "full_info", "file_name",
               "file_hash", "library", "author", "type", "title", "duration"}
                \cup (IF HasUrl(media.url) THEN {"url"} ELSE {})
  IN [k \in keys |->
        CASE k = "text"       -> chunk.text
          [] k = "start_time" -> chunk.start
          [] k = "end_time"   -> chunk.end
          [] k = "full_info"  -> JsonDumps(chunk)
          [] k = "file_name"  -> Basename(job.file_path)
          [] k = "file_hash"  -> get_file_hash(job.file_path)
          [] k = "library"    -> job.library_name
          [] k = "author"     -> job.author
          [] k = "type"       -> SourceType(job.is_youtube_video)
          [] k = "title"      -> media.title
          [] k = "duration"   -> media.duration
          [] k = "url"        -> media.url]

\* Lines 35-66: one record per pair of zip(chunks, embeddings).
BuildVectors(cs, es, job) ==
  LET media == get_media_metadata(job.file_path)
  IN [i \in 1..Min(Len(cs), Len(es)) |->
        [id |-> ChunkId(job.is_youtube_video, job.library_name, media.title,
                        cs[i].text, i - 1),
         values |-> es[i],
         metadata |-> Metadata(cs[i], job, media)]]

\* Line 68: whether range(0, len(vectors), 100) has a value at i.
InRange(i, vs) == i < Len(vs)

\* `interrupt_event.is_set` without the call: true of every event.
InterruptedUncalled(interrupt_event, is_set) == interrupt_event # None

\* Line 69: interrupt_event and interrupt_event.is_set().
Interrupted(interrupt_event, is_set) == interrupt_event # None /\ is_set

\* vectors[i:i+99].
BatchShort(vs, i) == SubSeq(vs, i + 1, Min(i + BatchSize - 1, Len(vs)))

\* Line 72: vectors[i:i+100].
Batch(vs, i) == SubSeq(vs, i + 1, Min(i + BatchSize, Len(vs)))

\* A test for the two texts as one phrase.
IsRateLimitPhrase(error_message) ==
  Contains(error_message, Str429 \o <<" ">> \o StrTooManyRequests)

\* `or` in place of `and`.
IsRateLimitEither(error_message) ==
  Contains(error_message, Str429) \/ Contains(error_message, StrTooManyRequests)

\* Line 77.
IsRateLimit(error_message) ==
  Contains(error_message, Str429) /\ Contains(error_message, StrTooManyRequests)

\* Line 83: PineconeException(f"Failed to upsert vectors: {str(e)}").
WrappedFailure(e) ==
  [type |-> "PineconeException", msg |-> StrFailedToUpsert \o e.msg]

\* The service's upsert: a record replaces the one of the same id; of two
\* records of one request with the same id the later one stays.
Upsert(records, batch) ==
  LET kept == {j \in 1..Len(batch) :
                 \A k \in (j + 1)..Len(batch) : batch[k].id # batch[j].id}
      ids == {batch[j].id : j \in 1..Len(batch)}
  IN {r \in records : r.id \notin ids} \cup {batch[j] : j \in kept}

store_in_pinecone(maxStores) ==
  \E job \in Jobs, interrupt_event \in {None, Some("event")} :
    /\ stores < maxStores
    /\ BeginCall([op |-> "store_in_pinecone", job |-> job,
                  interrupt_event |-> interrupt_event])
    /\ stores' = stores + 1
    /\ vectors' = BuildVectors(chunks, embeddings, job)
    /\ off' = 0
    /\ flag' = FALSE
    /\ polls' = 0
    /\ setAt' = None
    /\ upserts' = <<>>
    /\ deletes' = <<>>
    /\ outcome' = NoOutcome
    /\ log' = <<>>
    /\ pc' = "loop"
    /\ UNCHANGED <<serviceVars, embedVars>>

\* Another thread sets interrupt_event while the call runs.
SetInterrupt ==
  /\ pc \in {"loop", "upsert"}
  /\ args.interrupt_event # None
  /\ ~flag
  /\ flag' = TRUE
  /\ setAt' = Some([pc |-> pc, off |-> off])
  /\ UNCHANGED <<serviceVars, embedVars, stores, pc, args, vectors, off, polls,
                 upserts, deletes, dbBefore, svcError, outcome, log>>

\* Lines 68 and 85: the range is exhausted.
StoreFinish ==
  /\ pc = "loop"
  /\ ~InRange(off, vectors)
  /\ log' = Append(log, LogRecord("info",
               "Successfully stored " \o ToString(Len(vectors))
                 \o " vectors in Pinecone for file: "
                 \o Basename(args.job.file_path), None))
  /\ outcome' = [op |-> "store_in_pinecone", kind |-> "return", value |-> None]
  /\ pc' = "idle"
  /\ UNCHANGED <<serviceVars, embedVars, stores, args, storeVars, deletes,
                 dbBefore, svcError>>

\* Lines 69-71.
StoreInterrupted ==
  /\ pc = "loop"
  /\ InRange(off, vectors)
  /\ Interrupted(args.interrupt_event, flag)
  /\ polls' = polls + 1
  /\ log' = Append(log, LogRecord("info",
               "Interrupt detected. Stopping Pinecone upload...", None))
  /\ outcome' = [op |-> "store_in_pinecone", kind |-> "return", value |-> None]
  /\ pc' = "idle"
  /\ UNCHANGED <<serviceVars, embedVars, stores, args, vectors, off, flag, setAt,
                 upserts, deletes, dbBefore, svcError>>

\* Lines 69-74, to the point where index.upsert has the batch.
StoreSendBatch ==
  /\ pc = "loop"
  /\ InRange(off, vectors)
  /\ ~Interrupted(args.interrupt_event, flag)
  /\ polls' = IF args.interrupt_event # None THEN polls + 1 ELSE polls
  /\ upserts' = Append(upserts, Batch(vectors, off))
  /\ pc' = "upsert"
  /\ UNCHANGED <<serviceVars, embedVars, stores, args, vectors, off, flag, setAt,
                 deletes, dbBefore, svcError, outcome, log>>

\* Line 74 returns; line 68 takes the next value of the range.
UpsertOk ==
  /\ pc = "upsert"
  /\ db' = Upsert(db, upserts[Len(upserts)])
  /\ off' = off + BatchSize
  /\ pc' = "loop"
  /\ UNCHANGED <<loadVars, embedVars, stores, args, vectors, flag,
                 polls, setAt, upserts, deletes, dbBefore, svcError, outcome, log>>

\* Lines 75-83: index.upsert raises e.
UpsertFail ==
  \E e \in UpsertErrors :
    /\ pc = "upsert"
    /\ svcError' = Some(e)
    /\ IF IsRateLimit(e.msg)
       THEN /\ log' = log \o
                 <<LogRecord("error", "Error in upserting vectors: ", e.msg),
                   LogRecord("error", "You may have reached your write unit limit "
                     \o "for the current month. Exiting script.", None)>>
            /\ outcome' = [op |-> "store_in_pinecone", kind |-> "exit", value |-> 1]
            /\ pc' = "exited"
       ELSE /\ log' = Append(log,
                 LogRecord("error", "Error in upserting vectors: ", e.msg))
            /\ outcome' = [op |-> "store_in_pinecone", kind |-> "raise",
                           value |-> WrappedFailure(e)]
            /\ pc' = "idle"
    /\ UNCHANGED <<serviceVars, embedVars, stores, args, storeVars, deletes,
                   dbBefore>>

(***************************************************************************)
(* clear_library_vectors                                                   *)
(***************************************************************************)
\* Line 89 in place of line 90: index.delete(delete_all=True, namespace=None).
DeleteAllRequest(library_name) == [delete_all |-> TRUE, filter |-> <<>>]

\* Line 90: index.delete(filter={"library": library_name}).
DeleteRequest(library_name) ==
  [delete_all |-> FALSE, filter |-> [library |-> library_name]]

\* A handler that wraps the exception as store_in_pinecone does.
ReraiseWrapped(e) == WrappedFailure(e)

\* Lines 94 and 97: a bare raise re-raises the exception being handled.
Reraise(e) == e

\* The service's delete.
Delete(records, request) ==
  IF request.delete_all THEN {}
  ELSE {r \in records :
          \E k \in DOMAIN request.filter : r.metadata[k] # request.filter[k]}

\* Lines 88-90, to the point where index.delete has the request.
clear_library_vectors ==
  \E library_name \in Libraries \cup {"other"} :
    /\ BeginCall([op |-> "clear_library_vectors", library_name |-> library_name])
    /\ NoStoreLocals
    /\ deletes' = <<DeleteRequest(library_name)>>
    /\ outcome' = NoOutcome
    /\ log' = <<>>
    /\ pc' = "delete"
    /\ UNCHANGED <<serviceVars, embedVars, stores>>

\* Lines 90-91: index.delete returns.
DeleteOk ==
  /\ pc = "delete"
  /\ db' = Delete(db, deletes[Len(deletes)])
  /\ log' = Append(log, LogRecord("info",
               "Successfully cleared all vectors for library '"
                 \o args.library_name \o "' from the index.", None))
  /\ outcome' = [op |-> "clear_library_vectors", kind |-> "return", value |-> None]
  /\ pc' = "idle"
  /\ UNCHANGED <<loadVars, embedVars, stores, args, storeVars, deletes,
                 dbBefore, svcError>>

\* Lines 92-97: index.delete raises e.
DeleteFail ==
  \E e \in DeleteErrors :
    /\ pc = "delete"
    /\ svcError' = Some(e)
    /\ log' = IF IsNotFound(e)
              THEN Append(log, LogRecord("warning",
                     "The index or namespace you're trying to clear doesn't exist. "
                       \o "Skipping clear operation.", None))
              ELSE Append(log, LogRecord("error",
                     "An error occurred while trying to clear vectors: ", e.msg))
    /\ outcome' = [op |-> "clear_library_vectors", kind |-> "raise",
                   value |-> Reraise(e)]
    /\ pc' = "idle"
    /\ UNCHANGED <<serviceVars, embedVars, stores, args, storeVars, deletes,
                   dbBefore>>

(***************************************************************************)
(* Specifications                                                          *)
(***************************************************************************)
\* Sessions of several calls on short chunk lists.
Next ==
  \/ create_embeddings(MaxChunks, MaxStores)
  \/ store_in_pinecone(MaxStores)
  \/ SetInterrupt
  \/ StoreFinish
  \/ StoreInterrupted
  \/ StoreSendBatch
  \/ UpsertOk
  \/ UpsertFail
  \/ clear_library_vectors
  \/ DeleteOk
  \/ DeleteFail

Spec == Init /\ [][Next]_vars

\* One ingestion of a chunk list of up to MaxN chunks.
NextBatch ==
  \/ create_embeddings(MaxN, 1)
  \/ store_in_pinecone(1)
  \/ SetInterrupt
  \/ StoreFinish
  \/ StoreInterrupted
  \/ StoreSendBatch
  \/ UpsertOk
  \/ UpsertFail

SpecBatch == Init /\ [][NextBatch]_vars

\* load_pinecone calls of two callers, one after another or interleaved.
NextLoad ==
  \/ \E t \in Callers : LoadList(t)
  \/ \E t \in Callers : LoadListFail(t)
  \/ \E t \in Callers : LoadCreate(t)
  \/ \E t \in Callers : LoadCreateFail(t)
  \/ \E t \in Callers : LoadIndex(t)

SpecLoad == Init /\ [][NextLoad]_vars

(***************************************************************************)
(* Properties                                                              *)
(***************************************************************************)
InterruptMessage == "Interrupt detected. Stopping Pinecone upload..."

StoreReturned == outcome.op = "store_in_pinecone" /\ outcome.kind = "return"
StoreCancelled ==
  StoreReturned /\ \E i \in DOMAIN log : log[i].msg = InterruptMessage
StoreCompleted == StoreReturned /\ ~StoreCancelled

\* The records of the first n positions of vectors.
FirstRecords(n) == {vectors[i] : i \in 1..Min(n, Len(vectors))}

\* The 1-based number of the batch that starts at offset o.
BatchNumber(o) == o \div BatchSize + 1

\* C1: a run of store_in_pinecone over N records that is neither cancelled
\* nor hit by an upsert error issues exactly ceil(N/100) upsert calls, call j
\* carrying records 100*(j-1)+1 .. min(100*j, N) in list order: no batch is
\* empty, every batch but the last has 100 records, and the batches together
\* are the list.
C1_Batches ==
  StoreCompleted =>
    LET N == Len(vectors)
    IN /\ svcError = None
       /\ Len(upserts) = (N + BatchSize - 1) \div BatchSize
       /\ \A j \in DOMAIN upserts :
            /\ Len(upserts[j]) = Min(BatchSize * j, N) - BatchSize * (j - 1)
            /\ Len(upserts[j]) >= 1
            /\ j < Len(upserts) => Len(upserts[j]) = BatchSize
            /\ \A k \in DOMAIN upserts[j] :
                 upserts[j][k] = vectors[BatchSize * (j - 1) + k]
       /\ db = FirstRecords(N)

C1_Witness ==
  /\ StoreCompleted
  /\ Len(vectors) = 2 * BatchSize + 50
  /\ Len(upserts) = 3
  /\ Len(upserts[1]) = BatchSize /\ Len(upserts[2]) = BatchSize
  /\ Len(upserts[3]) = 50

\* C2: the cancellation signal is polled once before each batch and never
\* during one.  A batch is sent only if the poll before it found the signal
\* clear; a call that finds it set before batch k returns normally with
\* exactly k-1 batches upserted and nothing after them; a signal set while
\* batch k is being upserted does not stop batch k.
C2_Cancellation ==
  /\ args.op = "store_in_pinecone" =>
       polls = IF args.interrupt_event = None THEN 0
               ELSE Len(upserts) + (IF StoreCancelled THEN 1 ELSE 0)
  /\ (pc = "upsert" /\ flag) => setAt = Some([pc |-> "upsert", off |-> off])
  /\ StoreCancelled =>
       /\ args.interrupt_event # None /\ flag
       /\ pc = "idle" /\ svcError = None /\ outcome.value = None
       /\ InRange(off, vectors)
       /\ Len(upserts) = BatchNumber(off) - 1
       /\ db = FirstRecords(off)
  /\ (setAt # None /\ pc \in {"loop", "idle"} /\ svcError = None) =>
       (setAt[1].pc = "upsert" =>
          /\ Len(upserts) = BatchNumber(setAt[1].off)
          /\ \A k \in DOMAIN upserts[Len(upserts)] :
               upserts[Len(upserts)][k] \in db)

C2_Witness ==
  /\ StoreCancelled
  /\ Len(upserts) = 1
  /\ Len(vectors) > 2 * BatchSize
  /\ setAt = Some([pc |-> "upsert", off |-> 0])
  /\ Cardinality(db) = BatchSize

UpsertFailed == outcome.op = "store_in_pinecone" /\ svcError # None

HasRateLimitSignature(msg) ==
  Contains(msg, Str429) /\ Contains(msg, StrTooManyRequests)

\* C3: when the upsert of batch k fails with an error whose text contains
\* both "429" and "Too Many Requests", the process exits with a non-zero
\* status, batch k is the last one sent, and the caller gets no wrapped
\* failure.
C3_RateLimitExit ==
  (UpsertFailed /\ HasRateLimitSignature(svcError[1].msg)) =>
    /\ outcome.kind = "exit" /\ outcome.value # 0
    /\ pc = "exited"
    /\ Len(upserts) = BatchNumber(off)
    /\ db = FirstRecords(off)

C3_Witness ==
  /\ pc = "exited"
  /\ outcome.kind = "exit"
  /\ Len(upserts) = 2
  /\ Len(vectors) > 2 * BatchSize
  /\ svcError[1].msg = StrTooManyRequests \o <<" ">> \o Str429

\* C4: when the upsert of batch k fails with an error whose text does not
\* contain both "429" and "Too Many Requests", the error is logged and a
\* wrapped failure carrying the original message is raised to the caller;
\* the process does not exit and batch k is the last one sent.
C4_WrappedFailure ==
  (UpsertFailed /\ ~HasRateLimitSignature(svcError[1].msg)) =>
    /\ outcome.kind = "raise"
    /\ outcome.value.type = "PineconeException"
    /\ outcome.value.msg = StrFailedToUpsert \o svcError[1].msg
    /\ log # <<>>
    /\ log[Len(log)].level = "error" /\ log[Len(log)].arg = svcError[1].msg
    /\ pc = "idle"
    /\ Len(upserts) = BatchNumber(off)
    /\ db = FirstRecords(off)

C4_Witness ==
  /\ outcome.kind = "raise"
  /\ outcome.op = "store_in_pinecone"
  /\ Contains(svcError[1].msg, Str429)
  /\ ~Contains(svcError[1].msg, StrTooManyRequests)
  /\ Len(upserts) = 1
  /\ Len(vectors) > BatchSize

Texts == {TextAt(i) : i \in 1..4}
JustBuilt == pc = "loop" /\ off = 0

\* C5: the ids of the records built by one call are pairwise distinct, also
\* for chunks of the same text, and an id built for another library name,
\* another title and another chunk index is not the id of any of them (the
\* records do not change after line 66, so the second part is evaluated
\* where the loop of line 68 is entered).
C5_UniqueIds ==
  /\ \A i, j \in DOMAIN vectors : i # j => vectors[i].id # vectors[j].id
  /\ JustBuilt =>
       \A i \in DOMAIN vectors, yt \in BOOLEAN, lib \in Libraries,
          title \in Titles, text \in Texts, n \in 0..MaxChunks :
            ( /\ lib # vectors[i].metadata.library
              /\ title # vectors[i].metadata.title
              /\ n # i - 1 )
            => ChunkId(yt, lib, title, text, n) # vectors[i].id

C5_Witness ==
  /\ JustBuilt
  /\ Len(vectors) >= 3
  /\ vectors[1].metadata.text = vectors[3].metadata.text
  /\ vectors[1].metadata.text # vectors[2].metadata.text
  /\ Md5Hex8(vectors[1].metadata.text) = Md5Hex8(vectors[2].metadata.text)

\* The url that get_media_metadata resolved for the call in progress.
ResolvedUrl == get_media_metadata(args.job.file_path).url

\* C6 as stated: the metadata has the key url exactly when the resolved URL
\* is neither absent nor empty, and then holds that URL, never None.
C6_Original ==
  \A i \in DOMAIN vectors :
    /\ "url" \in DOMAIN vectors[i].metadata
         <=> (ResolvedUrl # None /\ ResolvedUrl # Some(""))
    /\ "url" \in DOMAIN vectors[i].metadata =>
         (vectors[i].metadata.url = ResolvedUrl /\ vectors[i].metadata.url # None)

\* C6 as amended: the metadata has the key url exactly when the resolved URL
\* is not None, and then holds that URL (an empty string included), never
\* None.
C6_UrlKey ==
  \A i \in DOMAIN vectors :
    /\ "url" \in DOMAIN vectors[i].metadata <=> ResolvedUrl # None
    /\ "url" \in DOMAIN vectors[i].metadata =>
         (vectors[i].metadata.url = ResolvedUrl /\ vectors[i].metadata.url # None)

C6_Witness ==
  /\ Len(vectors) >= 1
  /\ "url" \in DOMAIN vectors[1].metadata
  /\ vectors[1].metadata.url = Some("")

ClearEnded == outcome.op = "clear_library_vectors"

SuccessLogged ==
  \E i \in DOMAIN log : log[i].level = "info"

\* C7: clear_library_vectors swallows no failure of the delete call.  On a
\* not-found failure it logs a warning and raises that failure; on any other
\* error it logs the error and raises the same error, not a wrapper; the
\* success message is logged only when the delete call returned.
C7_ClearFailures ==
  /\ pc = "delete" => log = <<>>
  /\ ClearEnded =>
       /\ svcError = None =>
            (outcome.kind = "return" /\ Len(log) = 1 /\ SuccessLogged)
       /\ svcError # None =>
            /\ outcome.kind = "raise"
            /\ outcome.value = svcError[1]
            /\ Len(log) = 1
            /\ svcError[1].type = "NotFoundException" =>
                 log[1].level = "warning"
            /\ svcError[1].type # "NotFoundException" =>
                 (log[1].level = "error" /\ log[1].arg = svcError[1].msg)

C7_Witness ==
  /\ ClearEnded
  /\ outcome.kind = "raise"
  /\ outcome.value.type = "NotFoundException"
  /\ log[1].level = "warning"
  /\ db # {}

ClearSucceeded == ClearEnded /\ outcome.kind = "return"

\* C8: a successful clear_library_vectors(index, L) leaves no record of
\* library L, leaves every record of another library as it was, and sends
\* exactly one delete request, filtered on library = L and not a delete-all.
C8_ClearFrame ==
  ClearSucceeded =>
    LET L == args.library_name
    IN /\ \A r \in db : r.metadata.library # L
       /\ \A r \in dbBefore : r.metadata.library # L => r \in db
       /\ db \subseteq dbBefore
       /\ Len(deletes) = 1
       /\ deletes[1].delete_all = FALSE
       /\ deletes[1].filter = [library |-> L]

C8_Witness ==
  /\ ClearSucceeded
  /\ \E r \in dbBefore : r.metadata.library = args.library_name
  /\ \E r \in db : r.metadata.library # args.library_name
  /\ db # dbBefore

CreateRequestsFor(name) ==
  {i \in DOMAIN createReqs : createReqs[i].request.name = name}

\* C9 as stated: over sequential load_pinecone calls no name gets more than
\* one create-index request, and a call that returns returns a handle to the
\* index of the requested name.
C9_Original ==
  /\ ~overlap => \A i \in DOMAIN createReqs :
                   Cardinality(CreateRequestsFor(createReqs[i].request.name)) = 1
  /\ \A t \in Callers :
       lp[t].outcome.kind = "return" =>
         lp[t].outcome.value = Some(EffectiveIndexName(lp[t].index_name))

\* A step in which caller t gets the answer of pc.list_indexes().
Checked(t) == lp[t].pc = "idle" /\ lp'[t].pc \in {"create", "index"}

\* C9 as amended: a load_pinecone call sends a create-index request
\* (dimension 1536, cosine) exactly when the requested name is not among the
\* existing index names at the time of its check.  Over sequential calls no
\* request is sent for a name whose index exists, so every request for a name
\* but the last one failed and at most one is accepted; a call that returns
\* returns a handle to the index of the requested name, which then exists.
C9_LoadIdempotent ==
  /\ [](/\ \A i \in DOMAIN createReqs :
             /\ createReqs[i].request.dimension = 1536
             /\ createReqs[i].request.metric = "cosine"
             /\ ~overlap =>
                  \A j \in DOMAIN createReqs :
                    (i < j /\ createReqs[i].request.name = createReqs[j].request.name)
                      => ~createReqs[i].accepted
        /\ \A t \in Callers :
             /\ lp[t].pc = "create" => (overlap \/ lp[t].name \notin indexes)
             /\ lp[t].outcome.kind = "return" =>
                  /\ lp[t].outcome.value = Some(EffectiveIndexName(lp[t].index_name))
                  /\ lp[t].outcome.value[1] \in indexes)
  /\ [][/\ \A t \in Callers :
             Checked(t) =>
               /\ lp'[t].name = EffectiveIndexName(lp'[t].index_name)
               /\ lp'[t].pc = "create" <=> lp'[t].name \notin indexes
               /\ createReqs' = createReqs
        /\ createReqs' # createReqs =>
             \E t \in Callers :
               /\ lp[t].pc = "create" /\ lp'[t].pc # "create"
               /\ createReqs' = Append(createReqs, createReqs'[Len(createReqs')])
               /\ createReqs'[Len(createReqs')].request.name = lp[t].name
        /\ \A t \in Callers :
             (lp[t].pc = "create" /\ lp'[t].pc # "create") =>
               createReqs' # createReqs]_vars

C9_Witness ==
  /\ ~overlap
  /\ Len(createReqs) = 2
  /\ createReqs[1].request.name = EnvIndexName
  /\ createReqs[2].request.name = EnvIndexName
  /\ ~createReqs[1].accepted /\ createReqs[2].accepted
  /\ lp["main"].outcome.kind = "return"
  /\ lp["main"].index_name = None
  /\ lp["main"].log = <<>>

\* C10: create_embeddings sends the N chunk texts in chunk order in one
\* request and returns N embeddings, the one at position i being the one the
\* API returned for chunk i; the lists handed to store_in_pinecone have the
\* same length, and record i carries embedding i.
C10_Embeddings ==
  /\ Len(embeddings) = Len(chunks)
  /\ outcome.op = "create_embeddings" =>
       /\ Len(embReqs) = 1
       /\ embReqs[1].input = [i \in 1..Len(chunks) |-> chunks[i].text]
       /\ outcome.value = embeddings
       /\ \A i \in DOMAIN chunks :
            /\ embResp.data[i].index = i - 1
            /\ embeddings[i] = embResp.data[i].embedding
            /\ embeddings[i] = EmbeddingOf(chunks[i].text)
  /\ args.op = "store_in_pinecone" =>
       /\ Len(vectors) = Len(chunks)
       /\ \A i \in DOMAIN vectors : vectors[i].values = embeddings[i]

C10_Witness ==
  /\ outcome.op = "create_embeddings"
  /\ Len(chunks) = MaxChunks
  /\ embeddings[1] # embeddings[2]
  /\ embeddings[1] = embeddings[3]

====
